---- MODULE Spec2Model ----
(***************************************************************************)
(* Model of zimsoap/client.py: ZimbraAdminClient (a SOAP client for the    *)
(* zimbraAdmin web service) and ZimbraAPISession (login, session           *)
(* expiration, context header).                                            *)
(*                                                                         *)
(* The SOAP transport (pysimplesoap) and the server are the environment:   *)
(* every remote call either raises a fault or returns a response, a        *)
(* sequence of child elements chosen nondeterministically.                 *)
(***************************************************************************)
EXTENDS Integers, Sequences, FiniteSets, TLC

VARIABLES
    now,        \* datetime.datetime.now(), in whole ticks
    authToken,  \* ZimbraAPISession.authToken
    end_date,   \* ZimbraAPISession.end_date (the attribute may not exist yet)
    context,    \* the client's 'context' SOAP header, self['context']
    lastOp,     \* name of the operation that ran last
    inp,        \* the arguments the last operation was called with
    sent,       \* the remote calls the last operation sent, in order
    replies,    \* the transport's answer to each of them
    ret,        \* what the last operation returned or raised
    okLogin     \* history: the most recent login() that returned normally

vars == <<now, authToken, end_date, context, lastOp, inp, sent, replies, ret, okLogin>>

-----------------------------------------------------------------------------
(* Bounds of the model *)

MaxTime == 3        \* the clock runs from 0 to MaxTime
MaxElems == 2       \* a response has at most MaxElems child elements
MaxLoginDelay == 1  \* ticks that may pass inside login() between the two now()

-----------------------------------------------------------------------------
(* Values *)

NoId == "noid"               \* the object has no 'id' attribute
Ids == {"id1", "id2"}

\* Text carried by an element of an AuthResponse (authToken, lifetime).
AuthTexts == {"", "t1", "0", "1"}
\* Text carried by an element of a stats or count response.
DataTexts == {"7", "x"}

Elem(id, val) == [id |-> id, val |-> val]

AuthElems == {Elem(NoId, v) : v \in AuthTexts}
\* Elements of a stats or count response: what matters is their number.
NumElems == {Elem(NoId, v) : v \in DataTexts}
\* Elements describing an object (domain, mailbox, distribution list).
ObjElems == {Elem(i, "7") : i \in {"id1", NoId}}
\* Elements a distribution-list lookup may return.
DlElems == {Elem(i, "7") : i \in Ids \cup {NoId}}

SeqsUpTo(S, n) == UNION {[1..k -> S] : k \in 0..n}

Fault == [fault |-> TRUE, elems |-> <<>>]
Response(es) == [fault |-> FALSE, elems |-> es]

\* What the transport may answer to AuthRequest: a fault, or any response of
\* up to MaxElems elements; two elements is the well-formed shape.
Replies(E) == {Fault} \cup {Response(es) : es \in SeqsUpTo(E, MaxElems)}
AuthReplies == Replies(AuthElems)
\* A server whose AuthResponse is well formed but for the lifetime, which may
\* be no number; it may also answer with a fault or an empty response.
PlainAuthReplies ==
    {Fault, Response(<<>>)} \cup
    {Response(<<Elem(NoId, "t1"), Elem(NoId, v)>>) : v \in {"0", "1", "x"}}
\* DeleteDistributionListResponse carries nothing the client reads.
DeleteReplies == {Fault, Response(<<>>)}

\* Python's int() on a text: defined on decimal numerals only.
IntTexts == {"0", "1", "7"}
int(text) == CASE text = "0" -> 0
               [] text = "1" -> 1
               [] text = "7" -> 7

\* authToken values: None, a Python str, or a SimpleXMLElement not yet
\* converted to str.
None == [kind |-> "none", val |-> ""]
Str(text) == [kind |-> "str", val |-> text]
Xml(text) == [kind |-> "xml", val |-> text]

\* Python truth value of an authToken: None and '' are false, an element
\* object is true.
Truthy(tok) == CASE tok.kind = "none" -> FALSE
                 [] tok.kind = "str" -> tok.val # ""
                 [] tok.kind = "xml" -> TRUE

NoEndDate == [set |-> FALSE, at |-> 0]
EndDate(t) == [set |-> TRUE, at |-> t]

NoContext == [set |-> FALSE, authToken |-> None]
Context(tok) == [set |-> TRUE, authToken |-> tok]

Request(name, id) == [name |-> name, context |-> context, id |-> id]

NoRet == [err |-> "none", bool |-> FALSE, ctx |-> NoContext, recs |-> <<>>]
Raise(e) == [NoRet EXCEPT !.err = e]
Return(recs) == [NoRet EXCEPT !.recs = recs]

NoInp == [dl |-> NoId, at |-> 0]

-----------------------------------------------------------------------------
(* ZimbraAPISession *)

\* Variant: the session counts as expired at the instant of end_date.
is_logged_in_strict(tok, ed, t) ==
    IF ~Truthy(tok) THEN "False"
    ELSE IF ~ed.set THEN "AttributeError"
    ELSE IF ed.at > t THEN "True" ELSE "False"

\* is_logged_in(): "True", "False", or "AttributeError" when end_date was
\* never assigned.
is_logged_in(tok, ed, t) ==
    IF ~Truthy(tok) THEN "False"
    ELSE IF ~ed.set THEN "AttributeError"
    ELSE IF ed.at >= t THEN "True" ELSE "False"

\* get_context_header(): the <context> element holding authToken, or the
\* exception raised.
get_context_header(tok, ed, t) ==
    LET li == is_logged_in(tok, ed, t) IN
    IF li = "AttributeError" THEN Raise("AttributeError")
    ELSE IF li = "False" THEN Raise("ShouldAuthenticateFirst")
    ELSE [NoRet EXCEPT !.ctx = Context(tok)]

\* Variant: the lifetime is taken as the end date, the login time is not
\* added.
session_login_absolute(tok, ed, r, t) ==
    IF r.fault THEN [authToken |-> tok, end_date |-> ed, err |-> "SoapFault"]
    ELSE IF Len(r.elems) # 2
         THEN [authToken |-> tok, end_date |-> ed, err |-> "ValueError"]
    ELSE IF r.elems[2].val \notin IntTexts
         THEN [authToken |-> Xml(r.elems[1].val), end_date |-> ed,
               err |-> "ValueError"]
    ELSE [authToken |-> Str(r.elems[1].val),
          end_date |-> EndDate(int(r.elems[2].val)),
          err |-> "none"]

\* ZimbraAPISession.login(), given the transport's answer r to AuthRequest
\* and the time t of the call: the session afterwards and the exception.
session_login(tok, ed, r, t) ==
    IF r.fault THEN [authToken |-> tok, end_date |-> ed, err |-> "SoapFault"]
    ELSE IF Len(r.elems) # 2
         THEN [authToken |-> tok, end_date |-> ed, err |-> "ValueError"]
    ELSE IF r.elems[2].val \notin IntTexts
         THEN [authToken |-> Xml(r.elems[1].val), end_date |-> ed,
               err |-> "ValueError"]
    ELSE [authToken |-> Str(r.elems[1].val),
          end_date |-> EndDate(t + int(r.elems[2].val)),
          err |-> "none"]

-----------------------------------------------------------------------------
Init ==
    /\ now = 0
    /\ authToken = None
    /\ end_date = NoEndDate
    /\ context = NoContext
    /\ lastOp = "init"
    /\ inp = NoInp
    /\ sent = <<>>
    /\ replies = <<>>
    /\ ret = NoRet
    /\ okLogin = [done |-> FALSE, expiry |-> 0]

\* Time passes between operations.
Tick ==
    /\ now < MaxTime
    /\ now' = now + 1
    /\ lastOp' = "tick"
    /\ inp' = NoInp
    /\ sent' = <<>>
    /\ replies' = <<>>
    /\ ret' = NoRet
    /\ UNCHANGED <<authToken, end_date, context, okLogin>>

\* ZimbraAdminClient.login(admin_user, admin_password)
\* r answers the AuthRequest; d ticks pass between the now() of session login
\* and the now() of get_context_header.
login(r, d) ==
      LET s == session_login(authToken, end_date, r, now)
          h == get_context_header(s.authToken, s.end_date, now + d)
      IN
      /\ lastOp' = "login"
      /\ inp' = [NoInp EXCEPT !.at = now]
      /\ sent' = <<Request("AuthRequest", NoId)>>
      /\ replies' = <<r>>
      /\ authToken' = s.authToken
      /\ end_date' = s.end_date
      /\ IF s.err # "none"
         THEN /\ now' = now
              /\ ret' = Raise(s.err)
              /\ UNCHANGED <<context, okLogin>>
         ELSE /\ now' = now + d
              /\ IF h.err # "none"
                 THEN /\ ret' = Raise(h.err)
                      /\ UNCHANGED <<context, okLogin>>
                 ELSE /\ ret' = NoRet
                      /\ context' = h.ctx
                      /\ okLogin' = [done |-> TRUE,
                                     expiry |-> now + int(r.elems[2].val)]

Login ==
    \E r \in AuthReplies, d \in 0..MaxLoginDelay :
      /\ now + d <= MaxTime
      /\ login(r, d)

\* The same method against the server of PlainAuthReplies.
LoginPlain ==
    \E r \in PlainAuthReplies, d \in 0..MaxLoginDelay :
      /\ now + d <= MaxTime
      /\ login(r, d)

\* ZimbraAPISession.is_logged_in()
IsLoggedIn ==
    LET li == is_logged_in(authToken, end_date, now) IN
    /\ lastOp' = "is_logged_in"
    /\ inp' = NoInp
    /\ sent' = <<>>
    /\ replies' = <<>>
    /\ ret' = IF li = "AttributeError" THEN Raise("AttributeError")
              ELSE [NoRet EXCEPT !.bool = (li = "True")]
    /\ UNCHANGED <<now, authToken, end_date, context, okLogin>>

\* ZimbraAPISession.get_context_header()
GetContextHeader ==
    /\ lastOp' = "get_context_header"
    /\ inp' = NoInp
    /\ sent' = <<>>
    /\ replies' = <<>>
    /\ ret' = get_context_header(authToken, end_date, now)
    /\ UNCHANGED <<now, authToken, end_date, context, okLogin>>

-----------------------------------------------------------------------------
(* utils and zobjects *)

\* utils.extractResponses: the child elements of the response, however many.
extractResponses(r) == r.elems

\* utils.extractSingleResponse: the one child element; any other number of
\* elements is an unexpected response shape.
extractSingleResponse(r) ==
    IF Len(r.elems) = 1 THEN [err |-> "none", elem |-> r.elems[1]]
    ELSE [err |-> "ShapeError", elem |-> Elem(NoId, "")]

\* zobjects.<Class>.from_xml: a flat record of the element's fields.
from_xml(class, e) == [class |-> class, id |-> e.id, n |-> 0]

\* The dict get_mailbox_stats builds, and the pair count_account builds.
Number(class, e) == [class |-> class, id |-> e.id, n |-> int(e.val)]

MapSeq(F(_), es) == [i \in 1..Len(es) |-> F(es[i])]

-----------------------------------------------------------------------------
(* ZimbraAdminClient: high-level methods *)

\* Variant: a fault of the transport drops the client's context header.
Call_reset_on_fault(op, arg, name, id, r) ==
    /\ lastOp' = op
    /\ inp' = [NoInp EXCEPT !.dl = arg]
    /\ sent' = <<Request(name, id)>>
    /\ replies' = <<r>>
    /\ context' = IF r.fault THEN NoContext ELSE context
    /\ UNCHANGED <<now, authToken, end_date, okLogin>>

\* The frame of every high-level method: one remote call `name` answered by
\* r, and the result computed from the answer.
Call(op, arg, name, id, r) ==
    /\ lastOp' = op
    /\ inp' = [NoInp EXCEPT !.dl = arg]
    /\ sent' = <<Request(name, id)>>
    /\ replies' = <<r>>
    /\ UNCHANGED <<now, authToken, end_date, context, okLogin>>

\* A fault of the transport propagates; otherwise the method's own result.
Answer(r, result) == IF r.fault THEN Raise("SoapFault") ELSE result

\* "Domain", "Mailbox", ... records of all the elements of r.
Objects(class, r) ==
    LET F(e) == from_xml(class, e) IN Return(MapSeq(F, extractResponses(r)))

\* Variant: the first element is taken, however many there are.
Object_first(class, r) ==
    IF extractResponses(r) = <<>> THEN Raise("ShapeError")
    ELSE Return(<<from_xml(class, extractResponses(r)[1])>>)

\* The record of the single element of r, or the shape error.
Object(class, r) ==
    LET x == extractSingleResponse(r) IN
    IF x.err # "none" THEN Raise(x.err)
    ELSE Return(<<from_xml(class, x.elem)>>)

\* The dict of get_mailbox_stats: int() of every attribute of the single
\* element.
Stats(r) ==
    LET x == extractSingleResponse(r) IN
    IF x.err # "none" THEN Raise(x.err)
    ELSE IF x.elem.val \notin IntTexts THEN Raise("ValueError")
    ELSE Return(<<Number("stats", x.elem)>>)

get_all_domains ==
    \E r \in Replies(ObjElems) :
      /\ Call("get_all_domains", NoId, "GetAllDomainsRequest", NoId, r)
      /\ ret' = Answer(r, Objects("Domain", r))

get_mailbox_stats ==
    \E r \in Replies(NumElems) :
      /\ Call("get_mailbox_stats", NoId, "GetMailboxStatsRequest", NoId, r)
      /\ ret' = Answer(r, Stats(r))

count_account ==
    \E r \in Replies(NumElems) :
      /\ Call("count_account", NoId, "CountAccountRequest", NoId, r)
      /\ ret' = Answer(r,
           LET es == extractResponses(r)
               F(e) == Number("ClassOfService", e) IN
           IF \E i \in 1..Len(es) : es[i].val \notin IntTexts
           THEN Raise("ValueError")
           ELSE Return(MapSeq(F, es)))

get_all_mailboxes ==
    \E r \in Replies(ObjElems) :
      /\ Call("get_all_mailboxes", NoId, "GetAllMailboxesRequest", NoId, r)
      /\ ret' = Answer(r, Objects("Mailbox", r))

get_account_mailbox ==
    \E account_id \in {"id1"}, r \in Replies(ObjElems) :
      /\ Call("get_account_mailbox", account_id, "GetMailboxRequest",
              account_id, r)
      /\ ret' = Answer(r, Object("Mailbox", r))

get_distribution_list ==
    \E dl \in {"id1", NoId}, r \in Replies(ObjElems) :
      /\ Call("get_distribution_list", dl, "GetDistributionListRequest", dl, r)
      /\ ret' = Answer(r, Object("DistributionList", r))

create_distribution_list ==
    \E r \in Replies(ObjElems) :
      /\ Call("create_distribution_list", NoId,
              "CreateDistributionListRequest", NoId, r)
      /\ ret' = Answer(r, Object("DistributionList", r))

\* Variant: the list is always fetched first.
NeedsLookup_always(dl) == TRUE

\* dl.id raises AttributeError: no id is known, the list is fetched first.
NeedsLookup(dl) == dl = NoId

\* Variant: the id of the fetched list is used without looking at it.
Unqualified_never(found) == FALSE

\* The fetched list has no id either: 'Unqualified DistributionList'.
Unqualified(found) == found.recs[1].id = NoId

\* delete_distribution_list(dl): dl is the id the description carries, or
\* NoId for a description by name only.  r1 answers the lookup, r2 the delete.
delete_distribution_list ==
    \E dl \in Ids \cup {NoId}, r1 \in Replies(DlElems), r2 \in DeleteReplies :
      LET lookup == Request("GetDistributionListRequest", dl)
          found == Object("DistributionList", r1)
          delete(id) == Request("DeleteDistributionListRequest", id)
          done == IF r2.fault THEN Raise("SoapFault") ELSE NoRet
      IN
      /\ lastOp' = "delete_distribution_list"
      /\ inp' = [NoInp EXCEPT !.dl = dl]
      /\ UNCHANGED <<now, authToken, end_date, context, okLogin>>
      /\ IF ~NeedsLookup(dl)
         THEN /\ sent' = <<delete(dl)>>
              /\ replies' = <<r2>>
              /\ ret' = done
         ELSE IF r1.fault \/ found.err # "none"
         THEN /\ sent' = <<lookup>>
              /\ replies' = <<r1>>
              /\ ret' = IF r1.fault THEN Raise("SoapFault") ELSE found
         ELSE IF Unqualified(found)
         THEN /\ sent' = <<lookup>>
              /\ replies' = <<r1>>
              /\ ret' = Raise("ValueError")
         ELSE /\ sent' = <<lookup, delete(found.recs[1].id)>>
              /\ replies' = <<r1, r2>>
              /\ ret' = done

-----------------------------------------------------------------------------
\* The session alone, against every shape of AuthResponse.
SessionNext ==
    \/ Tick
    \/ Login
    \/ IsLoggedIn
    \/ GetContextHeader

SessionSpec == Init /\ [][SessionNext]_vars

\* The whole client.
Next ==
    \/ Tick
    \/ LoginPlain
    \/ IsLoggedIn
    \/ GetContextHeader
    \/ get_all_domains
    \/ get_mailbox_stats
    \/ count_account
    \/ get_all_mailboxes
    \/ get_account_mailbox
    \/ get_distribution_list
    \/ create_distribution_list
    \/ delete_distribution_list

Spec == Init /\ [][Next]_vars

-----------------------------------------------------------------------------
(* Properties *)

HighLevelOps == {"get_all_domains", "get_mailbox_stats", "count_account",
                 "get_all_mailboxes", "get_account_mailbox",
                 "get_distribution_list", "create_distribution_list",
                 "delete_distribution_list"}

SingleResultOps == {"get_mailbox_stats", "get_account_mailbox",
                    "get_distribution_list", "create_distribution_list"}

\* A token is present and the expiry has not passed.
Authenticated ==
    /\ authToken.kind # "none"
    /\ authToken.val # ""
    /\ end_date.set
    /\ now <= end_date.at

Returned(b) == ret.err = "none" /\ ret.bool = b

Count(name) == Cardinality({i \in 1..Len(sent) : sent[i].name = name})

\* C1: is_logged_in() returns false, without raising, on a session that never
\* logged in; after a successful login at T0 with lifetime L it returns true
\* at every time before T0+L and false at every time after T0+L.
C1_LoggedInUntilExpiry ==
    lastOp = "is_logged_in" =>
      /\ ~okLogin.done => Returned(FALSE)
      /\ okLogin.done /\ now < okLogin.expiry => Returned(TRUE)
      /\ okLogin.done /\ now > okLogin.expiry => Returned(FALSE)

\* C2: get_context_header() called before any login or after the expiry has
\* passed raises ShouldAuthenticateFirst, returns no context element, sends
\* no request and leaves the token and the expiry unchanged.
C2_UnauthenticatedHeaderFails ==
    [][(/\ lastOp' = "get_context_header"
        /\ \/ ~okLogin.done
           \/ end_date.set /\ now > end_date.at)
       => /\ ret'.err = "ShouldAuthenticateFirst"
          /\ ret'.ctx = NoContext
          /\ sent' = <<>>
          /\ authToken' = authToken
          /\ end_date' = end_date]_vars

\* C3 as stated: a context element is produced only while authToken is set
\* and now < expiry; at any time with now >= expiry the call fails with
\* ShouldAuthenticateFirst.
C3_StrictExpiry ==
    lastOp = "get_context_header" =>
      /\ ret.err = "none" =>
           authToken.kind # "none" /\ end_date.set /\ now < end_date.at
      /\ end_date.set /\ now >= end_date.at =>
           ret.err = "ShouldAuthenticateFirst"

\* C3 as amended: a context element is produced only while authToken is set
\* and now <= expiry; at any time with now > expiry the call fails with
\* ShouldAuthenticateFirst; at the instant now = expiry, with a non-empty
\* token, the context element is still produced.
C3_InclusiveExpiry ==
    lastOp = "get_context_header" =>
      /\ ret.err = "none" =>
           authToken.kind # "none" /\ end_date.set /\ now <= end_date.at
      /\ end_date.set /\ now > end_date.at =>
           ret.err = "ShouldAuthenticateFirst"
      /\ end_date.set /\ now = end_date.at /\ authToken.kind # "none"
           /\ authToken.val # ""
           => ret.err = "none" /\ ret.ctx = Context(authToken)

C3_Witness ==
    /\ lastOp = "get_context_header"
    /\ ret.err = "none"
    /\ now = end_date.at

\* C4: after every successful login the session's authToken is the token the
\* AuthRequest returned, the expiry is the login time plus the returned
\* lifetime, and the client's context carries that token; what an earlier
\* login stored is replaced.
C4_LoginStoresReply ==
    lastOp = "login" /\ ret.err = "none" =>
      /\ authToken = Str(replies[1].elems[1].val)
      /\ end_date = EndDate(inp.at + int(replies[1].elems[2].val))
      /\ context = Context(Str(replies[1].elems[1].val))

\* A re-login, later than time 0, that replaced another token: the
\* AuthRequest still went out under the old context.
C4_Witness ==
    /\ lastOp = "login"
    /\ ret.err = "none"
    /\ inp.at > 0
    /\ sent[1].context.set
    /\ sent[1].context.authToken # authToken

\* The lookup of the last delete_distribution_list yielded a list with an id.
LookupFound ==
    /\ ~replies[1].fault
    /\ Len(replies[1].elems) = 1
    /\ replies[1].elems[1].id # NoId

\* C5: delete_distribution_list on a description without id sends exactly one
\* GetDistributionListRequest and then, the lookup having returned an id,
\* exactly one DeleteDistributionListRequest carrying that id; on a
\* description with an id it sends no lookup and exactly one
\* DeleteDistributionListRequest carrying the description's id.
C5_OneLookupThenDelete ==
    lastOp = "delete_distribution_list" =>
      IF inp.dl = NoId
      THEN /\ Len(sent) >= 1
           /\ sent[1].name = "GetDistributionListRequest"
           /\ Count("GetDistributionListRequest") = 1
           /\ LookupFound =>
                /\ Len(sent) = 2
                /\ sent[2].name = "DeleteDistributionListRequest"
                /\ sent[2].id = replies[1].elems[1].id
      ELSE /\ Len(sent) = 1
           /\ sent[1].name = "DeleteDistributionListRequest"
           /\ sent[1].id = inp.dl

C5_Witness ==
    /\ lastOp = "delete_distribution_list"
    /\ inp.dl = NoId
    /\ Len(sent) = 2
    /\ sent[2].id = "id2"
    /\ ret.err = "none"

\* C6: when delete_distribution_list cannot resolve an id (no id in the
\* description and the lookup fails or yields none), the call ends in an
\* error, a ValueError when the looked-up record has no id, and no
\* DeleteDistributionListRequest is sent.
C6_UnresolvedNeverDeletes ==
    lastOp = "delete_distribution_list" /\ inp.dl = NoId /\ ~LookupFound =>
      /\ ret.err # "none"
      /\ Count("DeleteDistributionListRequest") = 0
      /\ (~replies[1].fault /\ Len(replies[1].elems) = 1) =>
           ret.err = "ValueError"

C6_Witness ==
    /\ lastOp = "delete_distribution_list"
    /\ inp.dl = NoId
    /\ ret.err = "ValueError"
    /\ Len(sent) = 1

\* C7 as stated: an operation expecting a single result returns a mapped
\* record when the response has exactly one element, and fails with the
\* shape error, returning no record, when it has none or several.
C7_SingleResult ==
    lastOp \in SingleResultOps /\ ~replies[1].fault =>
      IF Len(replies[1].elems) = 1
      THEN /\ ret.err = "none"
           /\ Len(ret.recs) = 1
           /\ ret.recs[1].id = replies[1].elems[1].id
      ELSE ret.err = "ShapeError" /\ ret.recs = <<>>

\* C7 as amended: as stated, but get_mailbox_stats returns the record only
\* if the attributes of the single element are integers, and raises
\* ValueError, returning no record, if they are not.
C7_SingleResultOrValueError ==
    lastOp \in SingleResultOps /\ ~replies[1].fault =>
      IF Len(replies[1].elems) # 1
      THEN ret.err = "ShapeError" /\ ret.recs = <<>>
      ELSE IF lastOp = "get_mailbox_stats"
              /\ replies[1].elems[1].val \notin IntTexts
      THEN ret.err = "ValueError" /\ ret.recs = <<>>
      ELSE /\ ret.err = "none"
           /\ Len(ret.recs) = 1
           /\ ret.recs[1].id = replies[1].elems[1].id

\* get_mailbox_stats on a single element whose attribute is no integer.
C7_Witness ==
    /\ lastOp = "get_mailbox_stats"
    /\ ~replies[1].fault
    /\ Len(replies[1].elems) = 1
    /\ ret.err = "ValueError"

\* C8: every operation other than login, whether it succeeds or fails,
\* leaves the session's authToken, its expiry and the client's context
\* unchanged.
C8_OnlyLoginMutates ==
    [][lastOp' \in HighLevelOps \cup {"is_logged_in", "get_context_header"}
       => UNCHANGED <<authToken, end_date, context>>]_vars

\* A high-level operation that failed on a logged-in client.
C8_Witness ==
    /\ lastOp \in HighLevelOps
    /\ ret.err = "SoapFault"
    /\ context.set
    /\ authToken.kind = "str"

\* C9: whenever a high-level operation sends a remote call, the call carries
\* a context holding the session's current authToken and the session is
\* authenticated; invoked while not authenticated, the operation sends
\* nothing and fails with ShouldAuthenticateFirst.
C9_CallsCarryCredential ==
    lastOp \in HighLevelOps =>
      /\ \A i \in 1..Len(sent) :
           /\ sent[i].context.set
           /\ sent[i].context.authToken = authToken
           /\ Authenticated
      /\ ~Authenticated =>
           sent = <<>> /\ ret.err = "ShouldAuthenticateFirst"

\* C10: a failed login has sent exactly one AuthRequest and leaves the
\* session's authToken, its expiry and the client's context as they were, so
\* that is_logged_in() answers as it would have without the failed login.
C10_FailedLoginAtomic ==
    [][lastOp' = "login" /\ ret'.err # "none"
       => /\ Len(sent') = 1
          /\ sent'[1].name = "AuthRequest"
          /\ authToken' = authToken
          /\ end_date' = end_date
          /\ context' = context
          /\ is_logged_in(authToken', end_date', now')
               = is_logged_in(authToken, end_date, now')]_vars
====
